---- MODULE Spec2Model ----
(***************************************************************************)
(* Model of the chained environment Envr<K, V> of src/src/lib.rs.          *)
(*                                                                         *)
(* An Envr is the pair (HashMap<K, V>, Option<Box<Self>>).  It is modelled *)
(* as a non-empty sequence of maps: e[1] is the local mapping (field .0),  *)
(* Tail(e) is the owned parent chain (field .1), and the parent is None    *)
(* exactly when Len(e) = 1.  A map is a function whose domain is the set   *)
(* of bound keys.                                                          *)
(***************************************************************************)
EXTENDS Integers, Sequences, FiniteSets, TLC

VARIABLES env, pre, call, ret, step, mem

vars == <<env, pre, call, ret, step, mem>>

(***************************************************************************)
(* Bounds of the model.                                                    *)
(***************************************************************************)
NumKeys == 2
NumVals == 2
MaxFromLen == 2
MaxCells == 6
MaxDiffCells == 4
MaxOtherCells == 3

ValNames == <<"a", "b", "c", "d", "e", "f", "g">>

Keys == 1..NumKeys
Vals == {ValNames[i] : i \in 1..NumVals}
Pairs == Keys \X Vals

RECURSIVE SeqsUpTo(_, _)
SeqsUpTo(S, n) ==
    IF n = 0 THEN {<<>>}
    ELSE LET shorter == SeqsUpTo(S, n - 1)
         IN  shorter \cup {Append(s, x) : s \in {t \in shorter : Len(t) = n - 1}, x \in S}

FromInputs == SeqsUpTo(Pairs, MaxFromLen)

(***************************************************************************)
(* Option, Either and the unit value.                                      *)
(***************************************************************************)
None == [tag |-> "None"]
Some(x) == [tag |-> "Some", val |-> x]
Left(x) == [tag |-> "Left", val |-> x]
Right(x) == [tag |-> "Right", val |-> x]
Unit == [tag |-> "Unit"]
Panic == [tag |-> "Panic"]

(***************************************************************************)
(* HashMap operations.                                                     *)
(***************************************************************************)
EmptyMap == << >>

\* HashMap::insert: binds k to v, replacing an earlier binding of k.
MapInsert(m, k, v) ==
    [x \in (DOMAIN m) \cup {k} |-> IF x = k THEN v ELSE m[x]]

\* HashMap::get
MapGet(m, k) == IF k \in DOMAIN m THEN Some(m[k]) ELSE None

(***************************************************************************)
(* Envr: structure.                                                        *)
(***************************************************************************)
NoEnv == << >>

Local(e) == e[1]
HasParent(e) == Len(e) > 1
Parent(e) == Tail(e)

\* Envr::new and Envr::new_from(None)
New == <<EmptyMap>>

\* Mutant of Extend: the new level starts as a copy of the parent's local
\* mapping instead of empty.
Extend_CopiesLocal(e) == <<Local(e)>> \o e

\* Envr::extend
Extend(e) == <<EmptyMap>> \o e

\* Envr::contains_local
ContainsLocal(e, k) == k \in DOMAIN Local(e)

\* Mutant of Contains: looks at the local level only.
Contains_LocalOnly(tmp, k) == k \in DOMAIN Local(tmp)

\* Envr::contains: the loop walks tmp from self to the root.
RECURSIVE Contains(_, _)
Contains(tmp, k) ==
    IF k \in DOMAIN Local(tmp) THEN TRUE
    ELSE IF HasParent(tmp) THEN Contains(Parent(tmp), k)
    ELSE FALSE

\* Mutant of Get: never asks the parent chain.
Get_LocalOnly(e, k) == MapGet(Local(e), k)

\* Mutant of Get: asks the parent chain first, so the outermost binding wins.
RECURSIVE Get_Outermost(_, _)
Get_Outermost(e, k) ==
    LET inherited == IF HasParent(e) THEN Get_Outermost(Parent(e), k) ELSE None
    IN  IF inherited # None THEN inherited ELSE MapGet(Local(e), k)

\* Envr::get
RECURSIVE Get(_, _)
Get(e, k) ==
    IF MapGet(Local(e), k) # None THEN MapGet(Local(e), k)
    ELSE IF HasParent(e) THEN Get(Parent(e), k)
    ELSE None

\* Mutant of Keyset: the loop stops after the first level.
Keyset_LocalOnly(tmp) == DOMAIN Local(tmp)

\* Envr::keyset: the loop collects the keys of every level.
RECURSIVE Keyset(_)
Keyset(tmp) ==
    IF HasParent(tmp) THEN (DOMAIN Local(tmp)) \cup Keyset(Parent(tmp))
    ELSE DOMAIN Local(tmp)

\* Mutant of Size: counts each key once, however many levels bind it.
Size_Dedup(e) == Cardinality(Keyset(e))

\* Mutant of Size: forgets the inherited entries.
Size_LocalOnly(e) == Cardinality(DOMAIN Local(e))

\* Envr::size
RECURSIVE Size(_)
Size(e) ==
    LET count == Cardinality(DOMAIN Local(e))
    IN  IF HasParent(e) THEN count + Size(Parent(e)) ELSE count

\* From<I>::from: inserts the pairs of iter in order into an empty root.
RECURSIVE FromLoop(_, _)
FromLoop(m, iter) ==
    IF iter = <<>> THEN m
    ELSE FromLoop(MapInsert(m, Head(iter)[1], Head(iter)[2]), Tail(iter))

From(iter) == <<FromLoop(EmptyMap, iter)>>


(***************************************************************************)
(* Envr: mutation.  Each operation yields the environment after the call   *)
(* and the value returned.                                                 *)
(***************************************************************************)
\* Mutant of InsertLocal: inserts at the root of the chain.
InsertLocal_Root(e, k, v) == [e EXCEPT ![Len(e)] = MapInsert(@, k, v)]

\* self.0.insert(k, v) on the local level; the parent chain is not touched.
InsertLocal(e, k, v) == <<MapInsert(Local(e), k, v)>> \o Parent(e)

\* Envr::define
DefineOp(e, k, v) ==
    IF Contains(e, k)
    THEN [env |-> e, ret |-> Some(<<k, v>>)]
    ELSE [env |-> InsertLocal(e, k, v), ret |-> None]

\* Mutant of SetOp: overwrites the parent's binding of k when there is one.
SetOp_IntoParent(e, k, v) ==
    [env |-> IF HasParent(e) /\ k \in DOMAIN e[2]
             THEN [e EXCEPT ![2] = MapInsert(@, k, v)]
             ELSE InsertLocal(e, k, v),
     ret |-> MapGet(Local(e), k)]

\* Mutant of SetOp: returns the value the whole chain bound to k.
SetOp_RetChain(e, k, v) ==
    [env |-> InsertLocal(e, k, v), ret |-> Get(e, k)]

\* Envr::set: HashMap::insert returns the value it replaced.
SetOp(e, k, v) ==
    [env |-> InsertLocal(e, k, v), ret |-> MapGet(Local(e), k)]

\* Mutant of GetMut: the outermost level that binds k.
RECURSIVE GetMut_Outermost(_, _)
GetMut_Outermost(e, k) ==
    LET p == IF HasParent(e) THEN GetMut_Outermost(Parent(e), k) ELSE 0
    IN  IF p # 0 THEN p + 1
        ELSE IF k \in DOMAIN Local(e) THEN 1 ELSE 0

\* Envr::get_mut: the level (1 = self) holding the binding the mutable
\* reference points to, 0 for None.
RECURSIVE GetMut(_, _)
GetMut(e, k) ==
    IF k \in DOMAIN Local(e) THEN 1
    ELSE IF HasParent(e)
         THEN LET p == GetMut(Parent(e), k)
              IN  IF p = 0 THEN 0 ELSE p + 1
         ELSE 0

\* *v0 = v through the reference get_mut returned.
WriteAt(e, i, k, v) == [e EXCEPT ![i] = MapInsert(@, k, v)]

\* Envr::update
UpdateOp(e, k, v) ==
    LET i == GetMut(e, k)
    IN  IF i # 0
        THEN LET e2 == WriteAt(e, i, k, v)
                 g == Get(e2, k)
             IN  [env |-> e2,
                  \* self.get(k).unwrap(): a panic when get finds nothing
                  ret |-> IF g.tag = "Some" THEN Left(g.val) ELSE Panic]
        ELSE [env |-> e, ret |-> Right(v)]

\* The body of flatten's inner loop: for (k, v) in tmp.0 { env.0.insert(k, v) }.
\* The iteration order of a HashMap is unspecified; the keys of one map are
\* distinct, so every order gives the same result.
RECURSIVE InsertAll(_, _)
InsertAll(acc, m) ==
    IF DOMAIN m = {} THEN acc
    ELSE LET k == CHOOSE x \in DOMAIN m : TRUE
         IN  InsertAll(MapInsert(acc, k, m[k]),
                       [x \in (DOMAIN m) \ {k} |-> m[x]])

\* Mutant of FlattenLoop: the loop breaks before it merges the root level.
RECURSIVE FlattenLoop_SkipsRoot(_, _)
FlattenLoop_SkipsRoot(acc, tmp) ==
    IF HasParent(tmp)
    THEN FlattenLoop_SkipsRoot(InsertAll(acc, Local(tmp)), Parent(tmp))
    ELSE acc

\* Mutant of FlattenLoop: merges the parent chain before the local level.
RECURSIVE FlattenLoop_ParentFirst(_, _)
FlattenLoop_ParentFirst(acc, tmp) ==
    IF HasParent(tmp)
    THEN InsertAll(FlattenLoop_ParentFirst(acc, Parent(tmp)), Local(tmp))
    ELSE InsertAll(acc, Local(tmp))

\* The outer loop of flatten: tmp runs from self to the root.
RECURSIVE FlattenLoop(_, _)
FlattenLoop(acc, tmp) ==
    LET acc2 == InsertAll(acc, Local(tmp))
    IN  IF HasParent(tmp) THEN FlattenLoop(acc2, Parent(tmp)) ELSE acc2

\* Mutant of Flatten: the result keeps the receiver's parent chain.
Flatten_KeepsParent(e) == <<FlattenLoop(EmptyMap, e)>> \o Parent(e)

\* Envr::flatten
Flatten(e) == <<FlattenLoop(EmptyMap, e)>>

\* Envr::keylist: one key collection per level, pushed from self to the root.
RECURSIVE Keylist(_)
Keylist(tmp) ==
    IF HasParent(tmp) THEN <<DOMAIN Local(tmp)>> \o Keylist(Parent(tmp))
    ELSE <<DOMAIN Local(tmp)>>

\* The body of stack's inner loop:
\* for (k, v) in &tmp.0 { map.entry(k).or_insert_with(Vec::new).push(v) }.
RECURSIVE PushAll(_, _)
PushAll(map, m) ==
    IF DOMAIN m = {} THEN map
    ELSE LET k == CHOOSE x \in DOMAIN m : TRUE
             old == IF k \in DOMAIN map THEN map[k] ELSE << >>
         IN  PushAll(MapInsert(map, k, Append(old, m[k])),
                     [x \in (DOMAIN m) \ {k} |-> m[x]])

\* Mutant of StackLoop: visits the parent chain before the local level.
RECURSIVE StackLoop_ParentFirst(_, _)
StackLoop_ParentFirst(map, tmp) ==
    IF HasParent(tmp)
    THEN PushAll(StackLoop_ParentFirst(map, Parent(tmp)), Local(tmp))
    ELSE PushAll(map, Local(tmp))

\* The outer loop of stack: tmp runs from self to the root.
RECURSIVE StackLoop(_, _)
StackLoop(map, tmp) ==
    LET map2 == PushAll(map, Local(tmp))
    IN  IF HasParent(tmp) THEN StackLoop(map2, Parent(tmp)) ELSE map2

\* Envr::stack
Stack(e) == StackLoop(EmptyMap, e)

\* HashMap's PartialEq: the same keys, bound to equal values.
MapEq(m1, m2) ==
    /\ DOMAIN m1 = DOMAIN m2
    /\ \A k \in DOMAIN m1 : m1[k] = m2[k]

\* Mutant of EnvEq: compares the local mappings only.
EnvEq_LocalOnly(a, b) == MapEq(Local(a), Local(b))

\* PartialEq for Envr: self.0.eq(&other.0) && self.1 == other.1, the
\* second conjunct being the equality of Option<Box<Envr>>.
RECURSIVE EnvEq(_, _)
EnvEq(a, b) ==
    /\ MapEq(Local(a), Local(b))
    /\ IF HasParent(a) /\ HasParent(b) THEN EnvEq(Parent(a), Parent(b))
       ELSE ~HasParent(a) /\ ~HasParent(b)

\* The loop of difference: for k in keys { if let Some(v) = self.get(k)
\* { env.set(*k, v) } }.  The keys are distinct, so the order of the
\* iteration does not matter.
RECURSIVE DiffLoop(_, _, _)
DiffLoop(e, a, keys) ==
    IF keys = {} THEN e
    ELSE LET k == CHOOSE x \in keys : TRUE
             g == Get(a, k)
         IN  DiffLoop(IF g # None THEN SetOp(e, k, g.val).env ELSE e,
                      a, keys \ {k})

\* Mutant of Difference: a key of other is dropped only when other binds it
\* to the same value.
Difference_ComparesValues(a, b) ==
    DiffLoop(New, a, {k \in Keyset(a) : Get(b, k) # Get(a, k)})

\* Envr::difference
Difference(a, b) == DiffLoop(New, a, Keyset(a) \ Keyset(b))

(***************************************************************************)
(* The calls, as steps of the state machine.  env is the environment the   *)
(* program holds, pre the receiver as it was before the last call (NoEnv   *)
(* for a constructor), call the last call with its arguments and ret the   *)
(* value it returned.  The program starts by constructing the environment  *)
(* with new or from; every later call has the environment as receiver.     *)
(* The chain grows to at most MaxCells levels and entries together.        *)
(***************************************************************************)
CallExtend ==
    /\ env' = Extend(env)
    /\ pre' = env
    /\ call' = [op |-> "extend"]
    /\ ret' = Unit

CallDefine(k, v) ==
    LET r == DefineOp(env, k, v)
    IN  /\ env' = r.env
        /\ pre' = env
        /\ call' = [op |-> "define", k |-> k, v |-> v]
        /\ ret' = r.ret

CallSet(k, v) ==
    LET r == SetOp(env, k, v)
    IN  /\ env' = r.env
        /\ pre' = env
        /\ call' = [op |-> "set", k |-> k, v |-> v]
        /\ ret' = r.ret

CallUpdate(k, v) ==
    LET r == UpdateOp(env, k, v)
    IN  /\ env' = r.env
        /\ pre' = env
        /\ call' = [op |-> "update", k |-> k, v |-> v]
        /\ ret' = r.ret

CallFlatten ==
    /\ env' = Flatten(env)
    /\ pre' = env
    /\ call' = [op |-> "flatten"]
    /\ ret' = Unit

\* The memory of the programs that never hold two environments at once:
\* they need none in the model.
NoMem == [heap |-> << >>, self |-> 0, ext |-> 0, later |-> 0]

Constructed(c, e) ==
    /\ env = e
    /\ pre = NoEnv
    /\ call = c
    /\ ret = Unit
    /\ mem = NoMem

Init ==
    /\ \/ Constructed([op |-> "new"], New)
       \/ \E iter \in FromInputs : Constructed([op |-> "from", iter |-> iter], From(iter))
    /\ step = 0

\* The levels and the entries of the chain, counted together.
Cells(e) == Len(e) + Size(e)

DoExtend ==
    /\ Cells(Extend(env)) <= MaxCells
    /\ CallExtend
    /\ UNCHANGED <<step, mem>>
DoDefine ==
    \E k \in Keys, v \in Vals :
        /\ Cells(DefineOp(env, k, v).env) <= MaxCells
        /\ CallDefine(k, v)
        /\ UNCHANGED <<step, mem>>
DoSet ==
    \E k \in Keys, v \in Vals :
        /\ Cells(SetOp(env, k, v).env) <= MaxCells
        /\ CallSet(k, v)
        /\ UNCHANGED <<step, mem>>
DoUpdate == \E k \in Keys, v \in Vals : CallUpdate(k, v) /\ UNCHANGED <<step, mem>>
DoFlatten == CallFlatten /\ UNCHANGED <<step, mem>>

Next ==
    \/ DoExtend
    \/ DoDefine
    \/ DoSet
    \/ DoUpdate
    \/ DoFlatten

Spec == Init /\ [][Next]_vars

(***************************************************************************)
(* The scenario of tests::it_works.  Script is the sequence of calls of    *)
(* the test up to its last mutation.  ScenarioSpec starts with the         *)
(* script's from and then applies the calls of the script in any order;    *)
(* step counts how many calls of the script the program has made so far    *)
(* in the script's order, and is 0 once it has left the script.            *)
(***************************************************************************)
Script ==
    << [op |-> "from", iter |-> << <<1, "a">>, <<2, "b">>, <<3, "c">> >>],
       [op |-> "extend"],
       [op |-> "set", k |-> 4, v |-> "d"],
       [op |-> "extend"],
       [op |-> "define", k |-> 5, v |-> "e"],
       [op |-> "set", k |-> 4, v |-> "f"] >>

ScriptCalls(op) == {Script[i] : i \in {j \in DOMAIN Script : Script[j].op = op}}

Monitor(s, c) ==
    IF s > 0 /\ s < Len(Script) /\ c = Script[s + 1] THEN s + 1 ELSE 0

ScenInit ==
    /\ Constructed(Script[1], From(Script[1].iter))
    /\ step = 1

\* The depth of the chain the script builds: one level for from and one
\* for every extend.  No chain of the scenario is deeper.
ScriptDepth == 1 + Cardinality({j \in DOMAIN Script : Script[j].op = "extend"})

ScenExtend ==
    /\ Len(env) < ScriptDepth
    /\ CallExtend
    /\ step' = Monitor(step, call')
    /\ UNCHANGED mem
ScenSet ==
    \E c \in ScriptCalls("set") :
        /\ CallSet(c.k, c.v)
        /\ step' = Monitor(step, call')
        /\ UNCHANGED mem
ScenDefine ==
    \E c \in ScriptCalls("define") :
        /\ CallDefine(c.k, c.v)
        /\ step' = Monitor(step, call')
        /\ UNCHANGED mem

ScenNext ==
    \/ ScenExtend
    \/ ScenSet
    \/ ScenDefine

ScenarioSpec == ScenInit /\ [][ScenNext]_vars

(***************************************************************************)
(* The chain seen level by level: the vocabulary of the properties.        *)
(***************************************************************************)
Levels(e) == 1..Len(e)
BoundAt(e, i, k) == k \in DOMAIN e[i]
Bound(e, k) == \E i \in Levels(e) : BoundAt(e, i, k)
AllKeys(e) == UNION {DOMAIN e[i] : i \in Levels(e)}
Innermost(e, k) ==
    CHOOSE i \in Levels(e) : BoundAt(e, i, k) /\ \A j \in 1..(i - 1) : ~BoundAt(e, j, k)
Outermost(e, k) ==
    CHOOSE i \in Levels(e) : BoundAt(e, i, k) /\ \A j \in (i + 1)..Len(e) : ~BoundAt(e, j, k)
Shadowed(e, k) == \E i, j \in Levels(e) : i < j /\ BoundAt(e, i, k) /\ BoundAt(e, j, k)
IsDefine == call.op = "define"
IsSet == call.op = "set"
IsUpdate == call.op = "update"
IsFlatten == call.op = "flatten"

(***************************************************************************)
(* C1: define of a key that is bound at any level of the chain returns     *)
(* Some((k, v)) with the arguments passed in and leaves every level of the *)
(* environment as it was.                                                  *)
(***************************************************************************)
C1_DefineRejection ==
    (IsDefine /\ Bound(pre, call.k)) =>
        /\ ret = Some(<<call.k, call.v>>)
        /\ env = pre

\* A define rejected because of a binding held by an ancestor only.
C1_Witness ==
    /\ IsDefine
    /\ Len(pre) > 1
    /\ ~BoundAt(pre, 1, call.k)
    /\ Bound(Parent(pre), call.k)
    /\ ret # None

(***************************************************************************)
(* C2: define of a key bound nowhere returns None, binds the key locally   *)
(* to v (contains_local, get), leaves every ancestor level unchanged, and  *)
(* a define of the same key that follows immediately returns Some((k, v2)) *)
(* and leaves get(k) = Some(v).                                            *)
(***************************************************************************)
C2_Accepted ==
    (IsDefine /\ ~Bound(pre, call.k)) =>
        /\ ret = None
        /\ ContainsLocal(env, call.k)
        /\ Get(env, call.k) = Some(call.v)
        /\ Parent(env) = Parent(pre)
        /\ \A v2 \in Vals :
              /\ DefineOp(env, call.k, v2).ret = Some(<<call.k, v2>>)
              /\ Get(DefineOp(env, call.k, v2).env, call.k) = Some(call.v)

C2_SecondDefine ==
    (IsDefine /\ ret = None /\ call'.op = "define" /\ call'.k = call.k) =>
        /\ ret' = Some(<<call'.k, call'.v>>)
        /\ Get(env', call.k) = Some(call.v)

C2_DefineAcceptance == [](C2_Accepted) /\ [][C2_SecondDefine]_vars

\* An accepted define in a child whose ancestors hold other bindings.
C2_Witness ==
    /\ IsDefine
    /\ ret = None
    /\ Len(pre) > 1
    /\ AllKeys(Parent(pre)) # {}
    /\ ~Bound(pre, call.k)

(***************************************************************************)
(* C3: after set(k, v) the local mapping binds k to v and get(k) is        *)
(* Some(v), whether or not an ancestor binds k; every ancestor level is    *)
(* exactly as before and the local bindings of the other keys are          *)
(* unchanged.                                                              *)
(***************************************************************************)
C3_SetShadowsLocally ==
    IsSet =>
        /\ MapGet(Local(env), call.k) = Some(call.v)
        /\ Get(env, call.k) = Some(call.v)
        /\ Len(env) = Len(pre)
        /\ \A i \in 2..Len(pre) : env[i] = pre[i]
        /\ DOMAIN Local(env) = (DOMAIN Local(pre)) \cup {call.k}
        /\ \A j \in (DOMAIN Local(pre)) \ {call.k} : Local(env)[j] = Local(pre)[j]

\* A set that shadows a different value bound by the parent.
C3_Witness ==
    /\ IsSet
    /\ Len(pre) > 1
    /\ ~BoundAt(pre, 1, call.k)
    /\ BoundAt(pre, 2, call.k)
    /\ pre[2][call.k] # call.v
    /\ DOMAIN Local(pre) # {}

(***************************************************************************)
(* C4: set(k, v) returns Some(old) exactly when k was bound in the local   *)
(* mapping before the call, old being that local value, and None when k    *)
(* was not locally bound, even if an ancestor binds k.                     *)
(***************************************************************************)
C4_SetReturnsLocalOld ==
    IsSet =>
        IF BoundAt(pre, 1, call.k)
        THEN ret = Some(pre[1][call.k])
        ELSE ret = None

\* A set of a key that only an ancestor binds: the call returns None.
C4_Witness ==
    /\ IsSet
    /\ ~BoundAt(pre, 1, call.k)
    /\ Bound(pre, call.k)
    /\ ret = None

(***************************************************************************)
(* C5: update(k, v) of a key bound somewhere overwrites the value at the   *)
(* innermost level that binds k, returns Left(v), makes get(k) = Some(v)   *)
(* and changes nothing else: same depth, same keys at every level, same    *)
(* size, same value for every other binding (outer bindings of k           *)
(* included).  update of a key bound nowhere returns Right(v) and leaves   *)
(* the environment unchanged.                                              *)
(***************************************************************************)
C5_UpdateInPlace ==
    IsUpdate =>
        IF Bound(pre, call.k)
        THEN /\ ret = Left(call.v)
             /\ Get(env, call.k) = Some(call.v)
             /\ Len(env) = Len(pre)
             /\ Size(env) = Size(pre)
             /\ \A i \in Levels(pre) :
                   /\ DOMAIN env[i] = DOMAIN pre[i]
                   /\ \A x \in DOMAIN pre[i] :
                         env[i][x] = IF i = Innermost(pre, call.k) /\ x = call.k
                                     THEN call.v
                                     ELSE pre[i][x]
        ELSE /\ ret = Right(call.v)
             /\ env = pre

\* An update that lands in the parent, below which an older binding of the
\* same key stays.
C5_Witness ==
    /\ IsUpdate
    /\ Len(pre) = 3
    /\ ~BoundAt(pre, 1, call.k)
    /\ BoundAt(pre, 2, call.k)
    /\ BoundAt(pre, 3, call.k)
    /\ pre[2][call.k] # call.v
    /\ pre[3][call.k] # call.v
    /\ ret = Left(call.v)

(***************************************************************************)
(* C6: get(k) is the value bound to k at the innermost level that binds    *)
(* k; get(k) is None and contains(k) is false exactly when no level binds  *)
(* k; contains(k) is true exactly when get(k) is Some.                     *)
(***************************************************************************)
C6_LookupOrder ==
    \A k \in Keys :
        /\ Bound(env, k) => Get(env, k) = Some(env[Innermost(env, k)][k])
        /\ ~Bound(env, k) <=> Get(env, k) = None
        /\ ~Bound(env, k) <=> ~Contains(env, k)
        /\ Contains(env, k) <=> Get(env, k).tag = "Some"

\* A key the local level does not bind, bound to different values by the
\* parent and the grandparent, next to a key bound nowhere.
C6_Witness ==
    /\ Len(env) = 3
    /\ \E k \in Keys :
          /\ ~BoundAt(env, 1, k)
          /\ BoundAt(env, 2, k)
          /\ BoundAt(env, 3, k)
          /\ env[2][k] # env[3][k]
    /\ \E k \in Keys : ~Bound(env, k)

(***************************************************************************)
(* C7: flatten keeps the newer binding: flatten(E).get(k) = E.get(k) for   *)
(* every key k.                                                            *)
(***************************************************************************)
C7_FlattenNewerWins ==
    IsFlatten => \A k \in Keys : Get(env, k) = Get(pre, k)

C9_SizeCountsEveryLevel ==
    /\ Size(env) = Cardinality({b \in Levels(env) \X AllKeys(env) : BoundAt(env, b[1], b[2])})
    /\ Size(env) >= Cardinality(Keyset(env))
    /\ (Size(env) = Cardinality(Keyset(env))) <=> ~\E k \in AllKeys(env) : Shadowed(env, k)

\* A chain of three levels with a shadowed key: size exceeds the key count.
C9_Witness ==
    /\ Len(env) = 3
    /\ \E k \in Keys : Shadowed(env, k)
    /\ Size(env) > Cardinality(Keyset(env))

(***************************************************************************)
(* C10: the scenario of the script.  As stated: at its end get(4) is       *)
(* Some("f"), get(1) is Some("a") and size() is 5.                         *)
(***************************************************************************)
C10_ScenarioAsStated ==
    (step = Len(Script)) =>
        /\ Get(env, 4) = Some("f")
        /\ Get(env, 1) = Some("a")
        /\ Size(env) = 5

(***************************************************************************)
(* C10, amended: define(5, "e") is accepted; at the end of the script      *)
(* get(4) is Some("f"), get(1) is Some("a"), the parent still binds 4 to   *)
(* "d", and size() is 6, the key 4 counting at both levels that bind it.   *)
(***************************************************************************)
C10_Scenario ==
    /\ (step = 5) => (ret = None /\ Get(env, 5) = Some("e"))
    /\ (step = Len(Script)) =>
          /\ Get(env, 4) = Some("f")
          /\ Get(env, 1) = Some("a")
          /\ Len(env) = 3
          /\ MapGet(env[2], 4) = Some("d")
          /\ ret = None
          /\ Size(env) = 6

\* The script has run to its end.
C10_Witness ==
    /\ step = Len(Script)
    /\ call = Script[Len(Script)]

(***************************************************************************)
(* More vocabulary: the levels that bind a key, counted from the           *)
(* innermost, and the level-by-level comparison of two chains.             *)
(***************************************************************************)
BindingLevels(e, k) == {i \in Levels(e) : BoundAt(e, i, k)}
NthBinding(e, k, n) ==
    CHOOSE i \in BindingLevels(e, k) :
        Cardinality({j \in BindingLevels(e, k) : j <= i}) = n
LevelwiseEqual(a, b) ==
    /\ Len(a) = Len(b)
    /\ \A i \in 1..Len(a) : a[i] = b[i]
IsExtend == call.op = "extend"

(***************************************************************************)
(* C12: stack() maps exactly the keys bound in the chain; the sequence of  *)
(* a key bound at n levels has length n and its i-th element is the value  *)
(* at the i-th innermost level that binds the key, so it starts with       *)
(* get(k) and ends with the outermost binding.  Three levels binding one   *)
(* key to three distinct values give those three values, innermost first.  *)
(***************************************************************************)
C12_StackNewestFirst ==
    /\ DOMAIN Stack(env) = AllKeys(env)
    /\ \A k \in AllKeys(env) :
          LET s == Stack(env)[k]
          IN  /\ Len(s) = Cardinality(BindingLevels(env, k))
              /\ \A n \in 1..Len(s) : s[n] = env[NthBinding(env, k, n)][k]
              /\ Some(s[1]) = Get(env, k)
              /\ s[Len(s)] = env[Outermost(env, k)][k]
    /\ LET x == 1
           three == << [k \in {x} |-> ValNames[1]],
                       [k \in {x} |-> ValNames[2]],
                       [k \in {x} |-> ValNames[3]] >>
       IN  /\ DOMAIN Stack(three) = {x}
           /\ Stack(three)[x] = <<ValNames[1], ValNames[2], ValNames[3]>>

\* Three levels that all bind one key, the innermost and the outermost to
\* different values.
C12_Witness ==
    /\ Len(env) = 3
    /\ \E k \in Keys :
          /\ BindingLevels(env, k) = {1, 2, 3}
          /\ env[1][k] # env[3][k]
          /\ Stack(env)[k] = <<env[1][k], env[2][k], env[3][k]>>

(***************************************************************************)
(* C13: two environments are equal exactly when they have the same number  *)
(* of levels and equal local mappings at every position.  So E differs     *)
(* from E.extend() for every E, and a chain of more than one level differs *)
(* from its flatten(), although the visible bindings may be the same.      *)
(***************************************************************************)
C13_StructuralEquality ==
    /\ EnvEq(env, env)
    /\ ~EnvEq(Extend(env), env)
    /\ ~EnvEq(env, Extend(env))
    /\ Len(env) > 1 => ~EnvEq(Flatten(env), env)
    /\ pre # NoEnv =>
          /\ EnvEq(env, pre) <=> LevelwiseEqual(env, pre)
          /\ EnvEq(pre, env) <=> LevelwiseEqual(env, pre)

\* A flatten that left every visible binding as it was, and yet an
\* environment that is not equal to the receiver.
C13_Witness ==
    /\ IsFlatten
    /\ Len(pre) > 1
    /\ AllKeys(pre) # {}
    /\ \A k \in Keys : Get(env, k) = Get(pre, k)
    /\ ~EnvEq(env, pre)

(***************************************************************************)
(* C14: extend adds exactly one empty level: the result has an empty local *)
(* mapping and a parent equal to the receiver, one level more, and the     *)
(* same size, key set and get(k) for every key.                            *)
(***************************************************************************)
C14_ExtendAddsEmptyLevel ==
    IsExtend =>
        /\ DOMAIN Local(env) = {}
        /\ HasParent(env)
        /\ EnvEq(Parent(env), pre)
        /\ LevelwiseEqual(Parent(env), pre)
        /\ Len(env) = Len(pre) + 1
        /\ Size(env) = Size(pre)
        /\ Keyset(env) = Keyset(pre)
        /\ \A k \in Keys : Get(env, k) = Get(pre, k)

\* An extend of a chain of two levels with a shadowed key.
C14_Witness ==
    /\ IsExtend
    /\ Len(pre) = 2
    /\ \E k \in Keys : Shadowed(pre, k)
    /\ DOMAIN Local(pre) # {}

(***************************************************************************)
(* More vocabulary: chains without a shadowed key, the union of their      *)
(* levels, and the merge of the levels in a given order of visit.          *)
(***************************************************************************)
NoCollision(e) == \A k \in AllKeys(e) : ~Shadowed(e, k)
UnionMap(e) ==
    [k \in AllKeys(e) |-> e[CHOOSE i \in Levels(e) : BoundAt(e, i, k)][k]]
RECURSIVE MergeLevels(_, _, _)
MergeLevels(acc, e, order) ==
    IF order = << >> THEN acc
    ELSE MergeLevels([k \in (DOMAIN acc) \cup (DOMAIN e[Head(order)]) |->
                         IF k \in DOMAIN e[Head(order)] THEN e[Head(order)][k] ELSE acc[k]],
                     e, Tail(order))
RootToSelf(e) == [i \in 1..Len(e) |-> Len(e) + 1 - i]

(***************************************************************************)
(* C16: when no key is bound at more than one level, flatten yields the    *)
(* union of the levels' mappings, the same in whichever order the levels   *)
(* are merged; get(k) is preserved for every key and so is size().  For a  *)
(* chain of two levels the result is the union of the two mappings.        *)
(***************************************************************************)
C16_FlattenWithoutCollisions ==
    (IsFlatten /\ NoCollision(pre)) =>
        /\ Len(env) = 1
        /\ Local(env) = UnionMap(pre)
        /\ Local(env) = MergeLevels(EmptyMap, pre, RootToSelf(pre))
        /\ \A k \in Keys : Get(env, k) = Get(pre, k)
        /\ Size(env) = Size(pre)
        /\ Len(pre) = 2 =>
              /\ DOMAIN Local(env) = (DOMAIN pre[1]) \cup (DOMAIN pre[2])
              /\ \A k \in DOMAIN pre[1] : Local(env)[k] = pre[1][k]
              /\ \A k \in DOMAIN pre[2] : Local(env)[k] = pre[2][k]

\* A flatten of a parentless environment extended with other keys.
C16_Witness ==
    /\ IsFlatten
    /\ Len(pre) = 2
    /\ NoCollision(pre)
    /\ DOMAIN pre[1] # {}
    /\ DOMAIN pre[2] # {}

(***************************************************************************)
(* C17: no call panics.  get and get_mut locate the same binding, so the   *)
(* unwrap in update is applied to Some whenever get_mut found the key, and *)
(* update returns Left or Right for every key and value.                   *)
(***************************************************************************)
C17_NoFault ==
    /\ ret # Panic
    /\ \A k \in Keys :
          /\ (GetMut(env, k) = 0) <=> (Get(env, k) = None)
          /\ (GetMut(env, k) # 0) => (Get(env, k) = Some(env[GetMut(env, k)][k]))
          /\ \A v \in Vals : UpdateOp(env, k, v).ret \in {Left(v), Right(v)}

\* An update that found its key at the root of a chain of three levels.
C17_Witness ==
    /\ IsUpdate
    /\ Len(pre) = 3
    /\ BindingLevels(pre, call.k) = {3}
    /\ ret = Left(call.v)
    /\ pre[3][call.k] # call.v

(***************************************************************************)
(* C18: keyset() is the set of keys bound in the chain: k is in keyset()   *)
(* iff contains(k) iff k is a key of stack(), a key bound at several       *)
(* levels appearing once.  keylist() has one element per level, from self  *)
(* to the root, and keyset() is the union of its elements.                 *)
(***************************************************************************)
C18_KeysetVisibleKeys ==
    /\ \A k \in Keys :
          /\ (k \in Keyset(env)) <=> Contains(env, k)
          /\ (k \in Keyset(env)) <=> (k \in DOMAIN Stack(env))
    /\ Keyset(env) = AllKeys(env)
    /\ Len(Keylist(env)) = Len(env)
    /\ \A i \in Levels(env) : Keylist(env)[i] = DOMAIN env[i]
    /\ Keyset(env) = UNION {Keylist(env)[i] : i \in 1..Len(Keylist(env))}

\* Three levels, a shadowed key and another key that only the root binds.
C18_Witness ==
    /\ Len(env) = 3
    /\ \E k, k2 \in Keys :
          /\ Shadowed(env, k)
          /\ BindingLevels(env, k2) = {3}
    /\ Cardinality(Keyset(env)) < Size(env)

(***************************************************************************)
(* C20: flatten's result has no parent, its local keys are the keyset of   *)
(* the receiver, its size is the number of those keys, so the size drops   *)
(* by the number of bindings that an outer level repeats, and flattening   *)
(* the result again gives an equal environment.                            *)
(***************************************************************************)
C20_FlattenShape ==
    IsFlatten =>
        /\ ~HasParent(env)
        /\ DOMAIN Local(env) = Keyset(pre)
        /\ Size(env) = Cardinality(Keyset(pre))
        /\ Size(pre) - Size(env) =
              Cardinality({b \in Levels(pre) \X AllKeys(pre) :
                              BoundAt(pre, b[1], b[2]) /\ b[1] # Outermost(pre, b[2])})
        /\ EnvEq(Flatten(env), env)
        /\ LevelwiseEqual(Flatten(env), env)

\* A flatten of three levels that lost a shadowed binding.
C20_Witness ==
    /\ IsFlatten
    /\ Len(pre) = 3
    /\ Size(env) < Size(pre)
    /\ Size(env) > 1

(***************************************************************************)
(* The programs that start from new() and call only extend, define and     *)
(* update, followed by at most one set, after which they stop.             *)
(***************************************************************************)
OnceInit ==
    /\ Constructed([op |-> "new"], New)
    /\ step = 0

OnceExtend == ~IsSet /\ DoExtend
OnceDefine == ~IsSet /\ DoDefine
OnceUpdate == ~IsSet /\ DoUpdate
OnceSet == ~IsSet /\ DoSet

OnceNext ==
    \/ OnceExtend
    \/ OnceDefine
    \/ OnceUpdate
    \/ OnceSet

DefineOnceSpec == OnceInit /\ [][OnceNext]_vars

(***************************************************************************)
(* C19: in an environment built from new() with define, update and extend  *)
(* only, every key is bound at one level at most; so size() is the number  *)
(* of keys, every sequence of stack() has length 1 and flatten preserves   *)
(* get(k) for every key.  One set breaks this exactly when its key is      *)
(* inherited from an ancestor and not bound locally.                       *)
(***************************************************************************)
C19_DefineOnce ==
    /\ ~IsSet =>
          /\ NoCollision(env)
          /\ \A k \in Keys : Cardinality(BindingLevels(env, k)) <= 1
          /\ Size(env) = Cardinality(Keyset(env))
          /\ \A k \in DOMAIN Stack(env) : Len(Stack(env)[k]) = 1
          /\ \A k \in Keys : Get(Flatten(env), k) = Get(env, k)
    /\ IsSet =>
          (~NoCollision(env) <=> (~BoundAt(pre, 1, call.k) /\ Bound(pre, call.k)))

\* A define rejected because an ancestor binds its key, in a chain that
\* binds two keys at two different levels.
C19_Witness ==
    /\ IsDefine
    /\ ret # None
    /\ Len(env) >= 2
    /\ ~BoundAt(env, 1, call.k)
    /\ \E k \in Keys : BoundAt(env, 1, k)
    /\ Cardinality(AllKeys(env)) = 2

(***************************************************************************)
(* The programs that build an environment with from, extend and set and    *)
(* then take its difference with another environment, the argument other.  *)
(* other ranges over the chains of at most MaxOtherCells levels and        *)
(* entries; the receiver grows to at most MaxDiffCells.                    *)
(***************************************************************************)
Maps == UNION {[D -> Vals] : D \in SUBSET Keys}

RECURSIVE ChainsWithCells(_)
ChainsWithCells(c) ==
    IF c < 1 THEN {}
    ELSE LET heads == {m \in Maps : 1 + Cardinality(DOMAIN m) <= c}
         IN  {<<m>> : m \in heads}
             \cup UNION {{<<m>> \o t : t \in ChainsWithCells(c - 1 - Cardinality(DOMAIN m))} :
                            m \in heads}

OtherInputs == ChainsWithCells(MaxOtherCells)

CallDifference(other) ==
    /\ env' = env
    /\ pre' = env
    /\ call' = [op |-> "difference", other |-> other]
    /\ ret' = Difference(env, other)

IsDifference == call.op = "difference"

DiffExtend ==
    /\ ~IsDifference
    /\ Cells(Extend(env)) <= MaxDiffCells
    /\ CallExtend
    /\ UNCHANGED <<step, mem>>
DiffSet ==
    \E k \in Keys, v \in Vals :
        /\ ~IsDifference
        /\ Cells(SetOp(env, k, v).env) <= MaxDiffCells
        /\ CallSet(k, v)
        /\ UNCHANGED <<step, mem>>
DiffDifference ==
    \E other \in OtherInputs :
        /\ ~IsDifference
        /\ CallDifference(other)
        /\ UNCHANGED <<step, mem>>

DiffNext ==
    \/ DiffExtend
    \/ DiffSet
    \/ DiffDifference

DiffSpec == Init /\ [][DiffNext]_vars

\* The environments of tests::difference.
TestEnv1 == From(<< <<"a", 8>>, <<"b", 9>>, <<"c", 10>> >>)
TestEnv2 == From(<< <<"a", 9>>, <<"d", 11>>, <<"b", 4>> >>)
TestExpected == From(<< <<"c", 10>> >>)

(***************************************************************************)
(* C11: A.difference(B) is a parentless environment whose keys are the     *)
(* keys A's chain binds and B's chain does not, each bound to A.get(k),    *)
(* the innermost binding in A; B's values play no part, so a key bound in  *)
(* both is excluded even when the values differ; A is left as it was.  For *)
(* the environments of the test the result holds exactly ("c", 10).        *)
(***************************************************************************)
C11_Difference ==
    /\ IsDifference =>
          /\ ~HasParent(ret)
          /\ DOMAIN Local(ret) = {k \in Keys : Contains(pre, k) /\ ~Contains(call.other, k)}
          /\ DOMAIN Local(ret) = AllKeys(pre) \ AllKeys(call.other)
          /\ \A k \in DOMAIN Local(ret) :
                /\ Some(Local(ret)[k]) = Get(pre, k)
                /\ Local(ret)[k] = pre[Innermost(pre, k)][k]
          /\ \A k \in AllKeys(pre) \cap AllKeys(call.other) : k \notin DOMAIN Local(ret)
          /\ env = pre
    /\ EnvEq(Difference(TestEnv1, TestEnv2), TestExpected)

\* A difference of two chains of two levels: a key bound in both to
\* different values is dropped, another key is kept.
C11_Witness ==
    /\ IsDifference
    /\ Len(pre) = 2
    /\ Len(call.other) = 2
    /\ DOMAIN Local(ret) # {}
    /\ \E k \in AllKeys(pre) \cap AllKeys(call.other) :
          /\ Get(pre, k) # Get(call.other, k)
          /\ k \notin DOMAIN Local(ret)

\* ---------------------------------------------------------------------
\* extension(): two environments held at once.
\*
\* Envr owns its parent through Option<Box<Self>>, so an environment is a
\* linked list of heap nodes.  To tell a copy from an alias the nodes are
\* kept apart in mem.heap: node n holds its own map in .local and the index
\* of its parent node in .parent (0 for None).  mem.self is the head of E,
\* mem.ext the head of E.extension() (0 until extension is called), and
\* mem.later counts the calls made since the extension was taken.
\* ---------------------------------------------------------------------
MaxPairCells == 7
MaxLater == 2

HeapNode(m, p) == [local |-> m, parent |-> p]

\* The node indices of the chain that starts at p, head first.
RECURSIVE Path(_, _)
Path(h, p) == IF p = 0 THEN << >> ELSE <<p>> \o Path(h, h[p].parent)

\* The environment that the chain starting at p denotes.
View(h, p) == [i \in 1..Len(Path(h, p)) |-> h[Path(h, p)[i]].local]

\* Writes the levels of e back into the nodes of the chain starting at p.
Store(h, p, e) ==
    LET path == Path(h, p)
        where(n) == CHOOSE i \in 1..Len(path) : path[i] = n
    IN  [n \in DOMAIN h |->
            IF \E i \in 1..Len(path) : path[i] = n
            THEN [h[n] EXCEPT !.local = e[where(n)]]
            ELSE h[n]]

Alloc(h, node) == [heap |-> Append(h, node), ptr |-> Len(h) + 1]

\* A clone that copies the head node only and shares the parent nodes.
CloneInto_Shallow(h, p) == Alloc(h, HeapNode(h[p].local, h[p].parent))

\* #[derive(Clone)]: the map is cloned and the boxed parent is cloned
\* recursively, so every node of the chain gets a fresh copy.
RECURSIVE CloneInto(_, _)
CloneInto(h, p) ==
    LET par == IF h[p].parent = 0
               THEN [heap |-> h, ptr |-> 0]
               ELSE CloneInto(h, h[p].parent)
    IN  Alloc(par.heap, HeapNode(h[p].local, par.ptr))

\* Self(HashMap::new(), Some(Box::new(self.clone())))
Extension(h, p) ==
    LET c == CloneInto(h, p)
    IN  Alloc(c.heap, HeapNode(EmptyMap, c.ptr))

\* Whether one more call fits, and the count of calls after it.
MayCall(m) == m.ext = 0 \/ m.later < MaxLater
Later(m) == IF m.ext = 0 THEN 0 ELSE m.later + 1

Targets == {"self", "ext"}
Ptr(m, t) == IF t = "self" THEN m.self ELSE m.ext
SelfView(m) == View(m.heap, m.self)
ExtView(m) == View(m.heap, m.ext)
\* The levels and entries of E and of its extension together; before the
\* extension exists, the ones the pair would have if it were made now.
PairCells(m) ==
    Cells(SelfView(m))
        + (IF m.ext = 0 THEN Cells(SelfView(m)) + 1 ELSE Cells(ExtView(m)))

\* A method that mutates the environment t in place: r is what the method
\* makes of the environment's value.
HeapWrite(t, c, r) ==
    /\ mem' = [mem EXCEPT !.heap = Store(mem.heap, Ptr(mem, t), r.env),
                          !.later = Later(mem)]
    /\ call' = c
    /\ ret' = r.ret
    /\ env' = SelfView(mem')
    /\ UNCHANGED <<pre, step>>

HeapInit ==
    \E iter \in FromInputs :
        /\ mem = [heap |-> <<HeapNode(From(iter)[1], 0)>>,
                  self |-> 1, ext |-> 0, later |-> 0]
        /\ env = From(iter)
        /\ pre = NoEnv
        /\ call = [op |-> "from", iter |-> iter]
        /\ ret = Unit
        /\ step = 0

\* extend(self) moves the environment into the parent box of a new head.
HeapExtend ==
    \E t \in Targets :
        /\ Ptr(mem, t) # 0
        /\ MayCall(mem)
        /\ PairCells(mem) < MaxPairCells
        /\ LET a == Alloc(mem.heap, HeapNode(EmptyMap, Ptr(mem, t)))
           IN  mem' = IF t = "self"
                      THEN [mem EXCEPT !.heap = a.heap, !.self = a.ptr,
                                       !.later = Later(mem)]
                      ELSE [mem EXCEPT !.heap = a.heap, !.ext = a.ptr,
                                       !.later = Later(mem)]
        /\ call' = [op |-> "extend", target |-> t]
        /\ ret' = Unit
        /\ env' = SelfView(mem')
        /\ UNCHANGED <<pre, step>>

HeapExtension ==
    /\ mem.ext = 0
    /\ PairCells(mem) <= MaxPairCells
    /\ LET x == Extension(mem.heap, mem.self)
       IN  mem' = [mem EXCEPT !.heap = x.heap, !.ext = x.ptr]
    /\ call' = [op |-> "extension", target |-> "self"]
    /\ ret' = Unit
    /\ env' = SelfView(mem')
    /\ UNCHANGED <<pre, step>>

HeapSet ==
    \E t \in Targets, k \in Keys, v \in Vals :
        /\ Ptr(mem, t) # 0
        /\ MayCall(mem)
        /\ PairCells(mem) < MaxPairCells
        /\ HeapWrite(t, [op |-> "set", target |-> t, k |-> k, v |-> v],
                     SetOp(View(mem.heap, Ptr(mem, t)), k, v))

HeapDefine ==
    \E t \in Targets, k \in Keys, v \in Vals :
        /\ Ptr(mem, t) # 0
        /\ MayCall(mem)
        /\ PairCells(mem) < MaxPairCells
        /\ HeapWrite(t, [op |-> "define", target |-> t, k |-> k, v |-> v],
                     DefineOp(View(mem.heap, Ptr(mem, t)), k, v))

HeapUpdate ==
    \E t \in Targets, k \in Keys, v \in Vals :
        /\ Ptr(mem, t) # 0
        /\ MayCall(mem)
        /\ HeapWrite(t, [op |-> "update", target |-> t, k |-> k, v |-> v],
                     UpdateOp(View(mem.heap, Ptr(mem, t)), k, v))

HeapNext ==
    \/ HeapExtend
    \/ HeapExtension
    \/ HeapSet
    \/ HeapDefine
    \/ HeapUpdate

HeapSpec == HeapInit /\ [][HeapNext]_vars

PathNodes(h, p) == {Path(h, p)[i] : i \in 1..Len(Path(h, p))}

\* E and its extension own no node in common.
C15_NoSharedNode ==
    mem.ext # 0 =>
        PathNodes(mem.heap, mem.self) \cap PathNodes(mem.heap, mem.ext) = {}

\* What one call may do to the two environments.
C15_Step ==
    /\ call'.op = "extension" =>
          /\ mem.ext = 0 /\ mem'.ext # 0
          /\ Local(ExtView(mem')) = EmptyMap
          /\ HasParent(ExtView(mem'))
          /\ EnvEq(Parent(ExtView(mem')), SelfView(mem))
          /\ SelfView(mem') = SelfView(mem)
    /\ (call'.op # "extension" /\ call'.target = "ext") =>
          SelfView(mem') = SelfView(mem)
    /\ (call'.op # "extension" /\ call'.target = "self" /\ mem.ext # 0) =>
          ExtView(mem') = ExtView(mem)

\* C15: extension() returns an empty level whose parent is structurally
\* equal to the receiver as it was at the call and leaves the receiver as
\* it was; from then on the two chains share no node, so no set, define,
\* update (or extend) on the extension changes anything observable through
\* the receiver, and none on the receiver changes the extension.
C15_ExtensionIndependent == [](C15_NoSharedNode) /\ [][C15_Step]_vars

\* An update on the extension rebound a key in a level copied from an
\* ancestor of E (below the copy of E's own head), and E still reads the
\* old value.
C15_Witness ==
    /\ call.op = "update"
    /\ call.target = "ext"
    /\ ret = Left(call.v)
    /\ GetMut(ExtView(mem), call.k) > 2
    /\ Get(SelfView(mem), call.k).tag = "Some"
    /\ Get(SelfView(mem), call.k) # Some(call.v)
    /\ Get(ExtView(mem), call.k) = Some(call.v)

====
